---- MODULE Spec2Model ----
(***************************************************************************)
(* Model of the attribution pipeline of scripts/novel_to_voicevox.py:      *)
(* split_sentences, the chunk_text generator, call_llm_attribution and the *)
(* chunk loop of main() (overlap drop, merge heuristics, annotation,       *)
(* assignments.jsonl), the synthesis loop of main() (manifest.json), and   *)
(* of the run button of scripts/gui_voicevox_runner.py with its worker     *)
(* thread.                                                                 *)
(*                                                                         *)
(* A text is a sequence of characters.  TLA+ strings are ASCII, so the     *)
(* non-ASCII characters of the source are written by code point:           *)
(*   "U3002" is the ideographic full stop, "U300D" the closing corner      *)
(*   bracket, "U2026" the horizontal ellipsis, and so on.                  *)
(***************************************************************************)
EXTENDS Integers, Sequences, FiniteSets, TLC

VARIABLES
    text,                   \* main: the novel text read from --input
    approx_chars,           \* args.chunk_chars
    overlap_sentences,      \* args.chunk_overlap_sentences
    gpc,                    \* chunk_text generator: position in its frame
    sentences,              \* chunk_text: sentences
    chunk,                  \* chunk_text: chunk
    size,                   \* chunk_text: size
    overlap_prefix,         \* chunk_text: overlap_prefix
    idx,                    \* chunk_text: idx
    yielded,                \* the value of the generator's last yield
    pc,                     \* the consumer of the generator: position in its loop
    chunk_idx,              \* main: chunk_idx
    lines,                  \* main: lines
    all_lines,              \* main: all_lines
    known_line_assignments, \* main: known_line_assignments
    jsonl,                  \* artifacts/assignments.jsonl as written by this run
    calls,                  \* number of client.chat calls issued so far
    answered,               \* number of client.chat calls that returned or raised
    folded,                 \* number of chunks whose merge loop has completed
    attributed,             \* what call_llm_attribution returned for the current chunk
    newsents,               \* consumer of the bare generator: non-overlap sentences so far
    raw,                    \* call_llm_attribution: raw, as a sequence of lines
    rpos,                   \* call_llm_attribution: index of the next line of raw
    accepted,               \* call_llm_attribution: lines
    name_map,               \* main: name_map, as name -> style_id
    manifest,               \* artifacts/manifest.json as written by this run
    run_button,             \* VoicevoxGUI: state of run_button
    wpc,                    \* _run_pipeline_thread: position of each worker thread
    polls,                  \* _run_pipeline_thread: passes of the readiness loop
    last_exit,              \* the way the last worker thread left its try block
    clicks                  \* number of clicks on run_button handled so far

genvars == <<gpc, sentences, chunk, size, overlap_prefix, idx, yielded>>
cfgvars == <<text, approx_chars, overlap_sentences, name_map>>
mainvars == <<chunk_idx, lines, all_lines, known_line_assignments, jsonl, calls, answered,
              folded, attributed>>
parsevars == <<raw, rpos, accepted>>
guivars == <<run_button, wpc, polls, last_exit, clicks>>
vars == <<cfgvars, genvars, pc, mainvars, newsents, parsevars, manifest, guivars>>

----------------------------------------------------------------------------
(* Characters *)

Kuten == "U3002"
Terminators == {"U3002", "UFF0E", "UFF01", "UFF1F", "!", "?"}
Closers == {"U300D", "U300F", "UFF3D", "U3011"}
Ellipsis == "U2026"
Whitespace == {" ", "\n", "U3000"}

\* Python: min(a, b), max(a, b)
Min(a, b) == IF a <= b THEN a ELSE b
Max(a, b) == IF a >= b THEN a ELSE b

\* Python: s[start:] for an integer start and a sequence s
SliceFrom(s, start) ==
    LET n == Len(s)
        lo == IF start < 0 THEN Max(n + start, 0) ELSE Min(start, n)
    IN SubSeq(s, lo + 1, n)

RECURSIVE LStrip(_)
LStrip(s) == IF s # <<>> /\ Head(s) \in Whitespace THEN LStrip(Tail(s)) ELSE s

RECURSIVE RStrip(_)
RStrip(s) ==
    IF s # <<>> /\ s[Len(s)] \in Whitespace THEN RStrip(SubSeq(s, 1, Len(s) - 1)) ELSE s

\* Python: s.strip()
Strip(s) == RStrip(LStrip(s))

\* re.sub(r"\s+", "", s)
RemoveWhitespace(s) == SelectSeq(s, LAMBDA c : c \notin Whitespace)

normalize_text_for_merge(t) == RemoveWhitespace(Strip(t))

----------------------------------------------------------------------------
(* split_sentences *)

\* Last index of the run of characters of class cls that starts at i.
RECURSIVE RunEnd(_, _, _)
RunEnd(t, i, cls) ==
    IF i + 1 <= Len(t) /\ t[i + 1] \in cls THEN RunEnd(t, i + 1, cls) ELSE i

\* Variant of SentenceEndMatch: the pattern takes no closing bracket.
SentenceEndMatchNoCloser(t, i) ==
    IF t[i] \in Terminators THEN RunEnd(t, i, Terminators)
    ELSE IF t[i] = Ellipsis THEN RunEnd(t, i, {Ellipsis})
    ELSE 0

\* SENTENCE_END_RE matched at position i: the index of the last character of
\* the match, or 0 when the pattern does not match at i.
SentenceEndMatch(t, i) ==
    IF t[i] \in Terminators
    THEN LET e == RunEnd(t, i, Terminators)
         IN IF e + 1 <= Len(t) /\ t[e + 1] \in Closers THEN e + 1 ELSE e
    ELSE IF t[i] = Ellipsis THEN RunEnd(t, i, {Ellipsis})
    ELSE 0

\* Variant of SplitScan: what is left after the last terminator is emitted
\* without being tested for emptiness.
RECURSIVE SplitScanKeepEmpty(_, _, _, _)
SplitScanKeepEmpty(t, i, buffer, segments) ==
    IF i > Len(t)
    THEN Append(segments, Strip(buffer))
    ELSE LET e == SentenceEndMatch(t, i)
         IN IF e = 0
            THEN SplitScanKeepEmpty(t, i + 1, Append(buffer, t[i]), segments)
            ELSE LET sentence == Strip(buffer \o SubSeq(t, i, e))
                 IN SplitScanKeepEmpty(t, e + 1, <<>>,
                        IF sentence # <<>> THEN Append(segments, sentence) ELSE segments)

\* Variant of SplitScan: the text after the last terminator is not emitted.
RECURSIVE SplitScanNoTail(_, _, _, _)
SplitScanNoTail(t, i, buffer, segments) ==
    IF i > Len(t)
    THEN segments
    ELSE LET e == SentenceEndMatch(t, i)
         IN IF e = 0
            THEN SplitScanNoTail(t, i + 1, Append(buffer, t[i]), segments)
            ELSE LET sentence == Strip(buffer \o SubSeq(t, i, e))
                 IN SplitScanNoTail(t, e + 1, <<>>,
                        IF sentence # <<>> THEN Append(segments, sentence) ELSE segments)

\* The loop over SENTENCE_END_RE.split(text): i scans the text, buffer holds
\* the even part read so far, segments the sentences emitted so far.
RECURSIVE SplitScan(_, _, _, _)
SplitScan(t, i, buffer, segments) ==
    IF i > Len(t)
    THEN LET tail == Strip(buffer)
         IN IF tail # <<>> THEN Append(segments, tail) ELSE segments
    ELSE LET e == SentenceEndMatch(t, i)
         IN IF e = 0
            THEN SplitScan(t, i + 1, Append(buffer, t[i]), segments)
            ELSE LET sentence == Strip(buffer \o SubSeq(t, i, e))
                 IN SplitScan(t, e + 1, <<>>,
                        IF sentence # <<>> THEN Append(segments, sentence) ELSE segments)

split_sentences(t) == SplitScan(t, 1, <<>>, <<>>)

----------------------------------------------------------------------------
(* chunk_text: a generator.  gpc is "start" before the first next(),       *)
(* "loop" at the head of the while loop, "suspended" at the yield inside   *)
(* the loop, "final" at the yield after it, "done" after StopIteration and *)
(* "raised" after the ValueError.  The generator runs only while its       *)
(* consumer is inside next(): pc = "chunking".                             *)

\* sum(len(x) for x in chunk)
RECURSIVE SumLen(_)
SumLen(c) == IF c = <<>> THEN 0 ELSE Len(Head(c)) + SumLen(Tail(c))

\* Variant of OverlapInvalid: the check of line 100 is missing.
OverlapNeverInvalid(n) == FALSE

\* line 100: the guard of the ValueError
OverlapInvalid(n) == n < 0

\* Variant of MustClose: only the length of the sentence is compared with
\* the budget.
MustCloseOnLongSentence(sz, sent, approx, c) == sz # 0 /\ Len(sent) > approx /\ c # <<>>

\* line 113: the current chunk is closed before sent is added
MustClose(sz, sent, approx, c) == sz # 0 /\ sz + Len(sent) > approx /\ c # <<>>

\* Variant of SeedChunk: the seed is taken from the head of the closed chunk.
SeedChunkFromHead(c, n) == SubSeq(c, 1, Min(n, Len(c)))

\* lines 116-117: the chunk that seeds the next one
SeedChunk(c, n) == SliceFrom(c, -n)
\* Variant of SeedPrefix: the prefix is the configured overlap, not clamped
\* to the chunk that was closed.
SeedPrefixUnclamped(c, n) == n
SeedPrefix(c, n) == Len(SeedChunk(c, n))

\* lines 126-129
PrefixAfterAppend(p, c) == IF p # 0 /\ Len(c) > p THEN Min(p, Len(c)) ELSE p

GenStart ==
    /\ pc = "chunking" /\ gpc = "start"
    /\ IF OverlapInvalid(overlap_sentences)
       THEN /\ gpc' = "raised"
            /\ pc' = "failed"
            /\ UNCHANGED <<sentences, chunk, size, overlap_prefix, idx>>
       ELSE /\ gpc' = "loop"
            /\ sentences' = split_sentences(text)
            /\ chunk' = <<>>
            /\ size' = 0
            /\ overlap_prefix' = 0
            /\ idx' = 0
            /\ pc' = pc
    /\ UNCHANGED <<yielded, cfgvars, manifest, guivars, mainvars, newsents, parsevars>>

\* One iteration of the while loop that does not yield: the sentence is
\* skipped (empty) or appended.
GenAppend ==
    /\ pc = "chunking" /\ gpc = "loop"
    /\ idx < Len(sentences)
    /\ LET sent == Strip(sentences[idx + 1])
       IN /\ sent = <<>> \/ ~MustClose(size, sent, approx_chars, chunk)
          /\ IF sent = <<>>
             THEN UNCHANGED <<chunk, size, overlap_prefix>>
             ELSE /\ chunk' = Append(chunk, sent)
                  /\ size' = size + Len(sent)
                  /\ overlap_prefix' = PrefixAfterAppend(overlap_prefix, Append(chunk, sent))
    /\ idx' = idx + 1
    /\ UNCHANGED <<gpc, sentences, yielded, pc, cfgvars, manifest, guivars, mainvars, newsents, parsevars>>

\* The iteration that closes the chunk: line 114 yields and suspends.
GenYield ==
    /\ pc = "chunking" /\ gpc = "loop"
    /\ idx < Len(sentences)
    /\ Strip(sentences[idx + 1]) # <<>>
    /\ MustClose(size, Strip(sentences[idx + 1]), approx_chars, chunk)
    /\ yielded' = [sents |-> chunk, overlap_prefix |-> overlap_prefix]
    /\ gpc' = "suspended"
    /\ pc' = "got"
    /\ UNCHANGED <<sentences, chunk, size, overlap_prefix, idx, cfgvars, manifest, guivars, mainvars,
                   newsents, parsevars>>

\* next() on the generator suspended at line 114: lines 115-123.
GenResume ==
    /\ pc = "chunking" /\ gpc = "suspended"
    /\ IF overlap_sentences # 0
       THEN /\ chunk' = SeedChunk(chunk, overlap_sentences)
            /\ overlap_prefix' = SeedPrefix(chunk, overlap_sentences)
            /\ size' = SumLen(SeedChunk(chunk, overlap_sentences))
       ELSE /\ chunk' = <<>>
            /\ overlap_prefix' = 0
            /\ size' = 0
    /\ gpc' = "loop"
    /\ UNCHANGED <<sentences, idx, yielded, pc, cfgvars, manifest, guivars, mainvars, newsents, parsevars>>

\* The while loop has ended: lines 131-132 yield the last chunk, or the
\* generator returns.
GenFinal ==
    /\ pc = "chunking" /\ gpc = "loop"
    /\ idx >= Len(sentences)
    /\ IF chunk # <<>>
       THEN /\ yielded' = [sents |-> chunk, overlap_prefix |-> overlap_prefix]
            /\ gpc' = "final"
            /\ pc' = "got"
       ELSE /\ gpc' = "done"
            /\ pc' = "exhausted"
            /\ UNCHANGED yielded
    /\ UNCHANGED <<sentences, chunk, size, overlap_prefix, idx, cfgvars, manifest, guivars, mainvars,
                   newsents, parsevars>>

\* next() on the generator suspended at line 132: StopIteration.
GenEnd ==
    /\ pc = "chunking" /\ gpc = "final"
    /\ gpc' = "done"
    /\ pc' = "exhausted"
    /\ UNCHANGED <<sentences, chunk, size, overlap_prefix, idx, yielded, cfgvars, manifest, guivars,
                   mainvars, newsents, parsevars>>

Generator == GenStart \/ GenAppend \/ GenYield \/ GenResume \/ GenFinal \/ GenEnd

----------------------------------------------------------------------------
(* The bare generator, driven by a for loop that only collects what each   *)
(* chunk contributes beyond its overlap prefix.                            *)

MaxTextLen == 6
MaxApprox == 3
MaxOverlap == 2

ChunkAlphabet == {"a", Kuten}

RECURSIVE TextsUpTo(_, _)
TextsUpTo(alphabet, n) ==
    IF n = 0 THEN {<<>>}
    ELSE LET shorter == TextsUpTo(alphabet, n - 1)
         IN shorter \cup {Append(t, c) : t \in {s \in shorter : Len(s) = n - 1}, c \in alphabet}

\* The splitter alone, on texts with whitespace, brackets and ellipses: the
\* first next() on the generator runs split_sentences(text) at line 102.
MaxSplitLen == 4

SplitAlphabet == {"a", Kuten, "!", "U300D", Ellipsis, " "}

\* lines 318-327: the character entries of the assignments file the runs of
\* the pipeline are configured with, as name -> style_id
PipeNames == {"X", "Narrator"}
PipeNameMap == [n \in PipeNames |-> IF n = "X" THEN 1 ELSE 3]

\* lines 329-336: the first configured name that is a narration label, or
\* the default label
NarrationLabels == {"U30CAU30ECU30FCU30B7U30E7U30F3", "U5730U306EU6587", "Narrator"}
narration_label ==
    IF DOMAIN name_map \cap NarrationLabels # {}
    THEN CHOOSE n \in DOMAIN name_map \cap NarrationLabels : TRUE
    ELSE "U30CAU30ECU30FCU30B7U30E7U30F3"

\* lines 338-340
allowed_names == DOMAIN name_map \cup {narration_label}

NoRecord == [sents |-> <<>>, overlap_prefix |-> 0]

\* Worker threads of the GUI the model keeps apart.
MaxWorkers == 2

InitIdle ==
    /\ gpc = "start"
    /\ sentences = <<>>
    /\ chunk = <<>>
    /\ size = 0
    /\ overlap_prefix = 0
    /\ idx = 0
    /\ yielded = NoRecord
    /\ pc = "chunking"
    /\ chunk_idx = 0
    /\ lines = <<>>
    /\ all_lines = <<>>
    /\ known_line_assignments = <<>>
    /\ jsonl = <<>>
    /\ calls = 0
    /\ answered = 0
    /\ folded = 0
    /\ attributed = <<>>
    /\ newsents = <<>>
    /\ raw = <<>>
    /\ rpos = 0
    /\ accepted = <<>>
    /\ manifest = <<>>
    /\ run_button = "normal"
    /\ wpc = [w \in 1..MaxWorkers |-> "idle"]
    /\ polls = [w \in 1..MaxWorkers |-> 0]
    /\ last_exit = "none"
    /\ clicks = 0

InitChunk ==
    /\ text \in TextsUpTo(ChunkAlphabet, MaxTextLen)
    /\ approx_chars \in 1..MaxApprox
    /\ overlap_sentences \in -1..MaxOverlap
    /\ name_map = PipeNameMap
    /\ InitIdle

\* for chunk, overlap_prefix in chunk_text(...): the body keeps the sentences
\* after the overlap prefix and asks for the next chunk.
InitSplit ==
    /\ text \in TextsUpTo(SplitAlphabet, MaxSplitLen)
    /\ approx_chars = 4000
    /\ overlap_sentences = 0
    /\ name_map = PipeNameMap
    /\ InitIdle

SpecSplit == InitSplit /\ [][GenStart]_vars

Consume ==
    /\ pc = "got"
    /\ newsents' = newsents \o SliceFrom(yielded.sents, yielded.overlap_prefix)
    /\ pc' = "chunking"
    /\ UNCHANGED <<genvars, cfgvars, manifest, guivars, mainvars, parsevars>>

NextChunk == Generator \/ Consume

SpecChunk == InitChunk /\ [][NextChunk]_vars

\* The interpreter runs the generator and its consumer until they finish.
FairSpecChunk == SpecChunk /\ WF_vars(NextChunk)

----------------------------------------------------------------------------
(* call_llm_attribution: the reply of client.chat is split into lines and  *)
(* each line is kept or skipped.  A line of the reply is described by what *)
(* ln.strip() and json.loads make of it:                                   *)
(*   form "blank"     - nothing is left after strip()                      *)
(*   form "fence"     - the stripped line starts with three backquotes     *)
(*   form "malformed" - json.loads raises                                  *)
(*   form "value"     - json.loads returns something that is not a dict    *)
(*   form "object"    - json.loads returns a dict; each of its three       *)
(*                      fields is a string (str = TRUE) or anything else,  *)
(*                      None for a missing key included (str = FALSE)      *)

Str(v) == [str |-> TRUE, val |-> v]
NotStrName == [str |-> FALSE, val |-> ""]
NotStrText == [str |-> FALSE, val |-> <<>>]

Obj(t, sp, tx) == [form |-> "object", type |-> t, speaker_name |-> sp, text |-> tx]
Other(f) == [form |-> f, type |-> NotStrName, speaker_name |-> NotStrName, text |-> NotStrText]

\* line 207: t in ("dialogue", "narration")
AllowedType(t) == t.str /\ t.val \in {"dialogue", "narration"}

\* Variant of KeepsLine: isinstance(sp, str) is not checked.
KeepsLineAnySpeaker(ln) == ln.form = "object" /\ AllowedType(ln.type) /\ ln.text.str

\* lines 195-211: TRUE when the line is appended to lines
KeepsLine(ln) ==
    IF ln.form = "blank" THEN FALSE
    ELSE IF ln.form = "fence" THEN FALSE
    ELSE IF ln.form = "malformed" THEN FALSE
    ELSE IF ln.form # "object" THEN FALSE
    ELSE AllowedType(ln.type) /\ ln.speaker_name.str /\ ln.text.str

\* The dict json.loads returned for an accepted line.
ObjOf(ln) == [type |-> ln.type.val, speaker_name |-> ln.speaker_name.val, text |-> ln.text.val]

\* One iteration of the for loop at line 194.
ScanLine(acc, ln) == IF KeepsLine(ln) THEN Append(acc, ObjOf(ln)) ELSE acc

\* The whole for loop: lines 193-212.
RECURSIVE ScanFrom(_, _, _)
ScanFrom(reply, i, acc) ==
    IF i > Len(reply) THEN acc ELSE ScanFrom(reply, i + 1, ScanLine(acc, reply[i]))

ParseReply(reply) == ScanFrom(reply, 1, <<>>)

----------------------------------------------------------------------------
(* call_llm_attribution alone, on every short reply over a pool of lines.  *)

MaxRaw == 3

A == <<"a", Kuten>>
ASpaced == <<"a", " ", Kuten>>
B == <<"b", Kuten>>
Blank == <<" ">>

ParsePool ==
    {Other("blank"), Other("fence"), Other("malformed"), Other("value"),
     Obj(Str("dialogue"), Str("X"), Str(A)),
     Obj(Str("narration"), Str(""), Str(B)),
     Obj(Str("other"), Str("X"), Str(A)),
     Obj(NotStrName, Str("X"), Str(A)),
     Obj(Str("dialogue"), NotStrName, Str(A)),
     Obj(Str("narration"), Str("Y"), NotStrText)}

RECURSIVE SeqsUpTo(_, _)
SeqsUpTo(S, n) ==
    IF n = 0 THEN {<<>>}
    ELSE LET shorter == SeqsUpTo(S, n - 1)
         IN shorter \cup {Append(q, x) : q \in {s \in shorter : Len(s) = n - 1}, x \in S}

InitParse ==
    /\ text = <<>>
    /\ approx_chars = 4000
    /\ overlap_sentences = 0
    /\ name_map = PipeNameMap
    /\ gpc = "start"
    /\ sentences = <<>>
    /\ chunk = <<>>
    /\ size = 0
    /\ overlap_prefix = 0
    /\ idx = 0
    /\ yielded = NoRecord
    /\ pc = "chat"
    /\ chunk_idx = 0
    /\ lines = <<>>
    /\ all_lines = <<>>
    /\ known_line_assignments = <<>>
    /\ jsonl = <<>>
    /\ calls = 0
    /\ answered = 0
    /\ folded = 0
    /\ attributed = <<>>
    /\ newsents = <<>>
    /\ raw = <<>>
    /\ rpos = 0
    /\ accepted = <<>>
    /\ manifest = <<>>
    /\ run_button = "normal"
    /\ wpc = [w \in 1..MaxWorkers |-> "idle"]
    /\ polls = [w \in 1..MaxWorkers |-> 0]
    /\ last_exit = "none"
    /\ clicks = 0

\* line 192: client.chat returns
ChatReply ==
    /\ pc = "chat"
    /\ \E reply \in SeqsUpTo(ParsePool, MaxRaw) : raw' = reply
    /\ rpos' = 0
    /\ accepted' = <<>>
    /\ pc' = "scan"
    /\ UNCHANGED <<cfgvars, manifest, guivars, genvars, mainvars, newsents>>

\* lines 194-211: one line of the reply
ScanStep ==
    /\ pc = "scan"
    /\ rpos < Len(raw)
    /\ accepted' = ScanLine(accepted, raw[rpos + 1])
    /\ rpos' = rpos + 1
    /\ UNCHANGED <<raw, pc, cfgvars, manifest, guivars, genvars, mainvars, newsents>>

\* line 212
ScanReturn ==
    /\ pc = "scan"
    /\ rpos >= Len(raw)
    /\ pc' = "returned"
    /\ UNCHANGED <<parsevars, cfgvars, manifest, guivars, genvars, mainvars, newsents>>

NextParse == ChatReply \/ ScanStep \/ ScanReturn

SpecParse == InitParse /\ [][NextParse]_vars

----------------------------------------------------------------------------
(* main(): the chunk loop, lines 370-419.  pc is "chunking" while main is  *)
(* inside next() on the generator, "got" when a chunk has been received,   *)
(* "attributing" while client.chat is outstanding, "reconciling" when      *)
(* call_llm_attribution has returned, "sequencing" after the merge loop,   *)
(* "exhausted" when the for loop has ended, "done" after the dry-run       *)
(* return and "failed" when an exception has left main.                    *)

MaxChunks == 2
MaxResp == 2

PipeText == <<"b", Kuten, "a", Kuten, "b", Kuten>>
PipeApprox == {4, 6}
PipeOverlaps == {-1, 0, 1, 2}

PipePool ==
    {Obj(Str("dialogue"), Str("X"), Str(A)),
     Obj(Str("narration"), Str(""), Str(ASpaced)),
     Obj(Str("narration"), Str("Y"), Str(B)),
     Obj(Str("dialogue"), Str("X"), Str(Blank)),
     Obj(Str("narration"), Str("Y"), Str(<<>>)),
     Other("malformed")}

Init ==
    /\ text = PipeText
    /\ approx_chars \in PipeApprox
    /\ overlap_sentences \in PipeOverlaps
    /\ name_map = PipeNameMap
    /\ InitIdle

\* known_line_assignments[norm_key] = (speaker, line_type)
Record(mem, key, pair) ==
    [k \in DOMAIN mem \cup {key} |-> IF k = key THEN pair ELSE mem[k]]

\* Variant of MergeOne: a first attribution is recorded but never written
\* over a later line.
MergeOneNoOverwrite(obj, mem) ==
    LET norm_key == normalize_text_for_merge(obj.text)
    IN IF norm_key = <<>> \/ norm_key \in DOMAIN mem \/ obj.speaker_name = "" \/ obj.type = ""
       THEN [obj |-> obj, mem |-> mem]
       ELSE [obj |-> obj, mem |-> Record(mem, norm_key, <<obj.speaker_name, obj.type>>)]

\* Variant of MergeOne: the recorded pair is read back in the wrong order.
MergeOneSwapped(obj, mem) ==
    LET norm_key == normalize_text_for_merge(obj.text)
        speaker == obj.speaker_name
        line_type == obj.type
    IN IF norm_key = <<>> THEN [obj |-> obj, mem |-> mem]
       ELSE IF norm_key \in DOMAIN mem
       THEN [obj |-> [obj EXCEPT !.speaker_name = mem[norm_key][2],
                                 !.type = mem[norm_key][1]],
             mem |-> mem]
       ELSE IF speaker # "" /\ line_type # ""
       THEN [obj |-> obj, mem |-> Record(mem, norm_key, <<speaker, line_type>>)]
       ELSE [obj |-> obj, mem |-> mem]

\* Variant of MergeOne: a speaker_name outside allowed_names is replaced by
\* the narration label before the line is merged.
MergeOneValidating(obj, mem) ==
    LET norm_key == normalize_text_for_merge(obj.text)
        speaker == IF obj.speaker_name \in allowed_names THEN obj.speaker_name
                   ELSE narration_label
        line_type == obj.type
        checked == [obj EXCEPT !.speaker_name = speaker]
    IN IF norm_key = <<>> THEN [obj |-> checked, mem |-> mem]
       ELSE IF norm_key \in DOMAIN mem
       THEN [obj |-> [obj EXCEPT !.speaker_name = mem[norm_key][1],
                                 !.type = mem[norm_key][2]],
             mem |-> mem]
       ELSE IF speaker # "" /\ line_type # ""
       THEN [obj |-> checked, mem |-> Record(mem, norm_key, <<speaker, line_type>>)]
       ELSE [obj |-> checked, mem |-> mem]

\* Variant of MergeOne: a recorded pair overwrites the speaker_name of a
\* later line but not its type.
MergeOneSpeakerOnly(obj, mem) ==
    LET norm_key == normalize_text_for_merge(obj.text)
        speaker == obj.speaker_name
        line_type == obj.type
    IN IF norm_key = <<>> THEN [obj |-> obj, mem |-> mem]
       ELSE IF norm_key \in DOMAIN mem
       THEN [obj |-> [obj EXCEPT !.speaker_name = mem[norm_key][1]], mem |-> mem]
       ELSE IF speaker # "" /\ line_type # ""
       THEN [obj |-> obj, mem |-> Record(mem, norm_key, <<speaker, line_type>>)]
       ELSE [obj |-> obj, mem |-> mem]

\* Variant of MergeOne: a line with an empty key is merged like any other.
MergeOneEmptyKey(obj, mem) ==
    LET norm_key == normalize_text_for_merge(obj.text)
        speaker == obj.speaker_name
        line_type == obj.type
    IN IF norm_key \in DOMAIN mem
       THEN [obj |-> [obj EXCEPT !.speaker_name = mem[norm_key][1],
                                 !.type = mem[norm_key][2]],
             mem |-> mem]
       ELSE IF speaker # "" /\ line_type # ""
       THEN [obj |-> obj, mem |-> Record(mem, norm_key, <<speaker, line_type>>)]
       ELSE [obj |-> obj, mem |-> mem]

\* lines 393-406: the body of the merge loop for one obj; the result is the
\* obj as the loop leaves it and the memory after it.
MergeOne(obj, mem) ==
    LET norm_key == normalize_text_for_merge(obj.text)
        speaker == obj.speaker_name
        line_type == obj.type
    IN IF norm_key = <<>> THEN [obj |-> obj, mem |-> mem]
       ELSE IF norm_key \in DOMAIN mem
       THEN [obj |-> [obj EXCEPT !.speaker_name = mem[norm_key][1],
                                 !.type = mem[norm_key][2]],
             mem |-> mem]
       ELSE IF speaker # "" /\ line_type # ""
       THEN [obj |-> obj, mem |-> Record(mem, norm_key, <<speaker, line_type>>)]
       ELSE [obj |-> obj, mem |-> mem]

\* lines 392-406: the merge loop over lines
RECURSIVE MergeLoop(_, _, _, _)
MergeLoop(ls, i, done, mem) ==
    IF i > Len(ls) THEN [lines |-> done, mem |-> mem]
    ELSE LET r == MergeOne(ls[i], mem)
         IN MergeLoop(ls, i + 1, Append(done, r.obj), r.mem)

\* Variant of DropOverlap: the leading lines are dropped only when their
\* text is the text of the overlap sentences.
DropOverlapMatching(ls, prefix) ==
    IF /\ prefix # 0
       /\ Len(ls) >= prefix
       /\ \A k \in 1..prefix :
             normalize_text_for_merge(ls[k].text) = normalize_text_for_merge(yielded.sents[k])
    THEN SliceFrom(ls, prefix)
    ELSE ls

\* Variant of DropOverlap: the overlap lines are kept.
DropOverlapNone(ls, prefix) == ls

\* lines 389-390
DropOverlap(ls, prefix) == IF prefix # 0 THEN SliceFrom(ls, prefix) ELSE ls

\* Variant of Annotate: the position in the chunk is counted from 0.
AnnotateZeroBased(ls, c) ==
    [i \in 1..Len(ls) |->
        [type |-> ls[i].type, speaker_name |-> ls[i].speaker_name, text |-> ls[i].text,
         chunk_index |-> c, line_index_in_chunk |-> i - 1]]

\* Variant of Annotate: every line is given the index of the first chunk.
AnnotateFirstChunk(ls, c) ==
    [i \in 1..Len(ls) |->
        [type |-> ls[i].type, speaker_name |-> ls[i].speaker_name, text |-> ls[i].text,
         chunk_index |-> 1, line_index_in_chunk |-> i]]

\* lines 409-411
Annotate(ls, c) ==
    [i \in 1..Len(ls) |->
        [type |-> ls[i].type, speaker_name |-> ls[i].speaker_name, text |-> ls[i].text,
         chunk_index |-> c, line_index_in_chunk |-> i]]

\* Variant of MainCall: client.chat is called a second time for the chunk.
MainCallRetry ==
    /\ pc = "got"
    /\ chunk_idx < MaxChunks
    /\ chunk_idx' = chunk_idx + 1
    /\ calls' = calls + 2
    /\ pc' = "attributing"
    /\ UNCHANGED <<lines, all_lines, known_line_assignments, jsonl, answered, folded,
                   attributed, cfgvars, manifest, guivars, genvars, newsents, parsevars>>

\* lines 379-388 up to the call of client.chat at line 192
MainCall ==
    /\ pc = "got"
    /\ chunk_idx < MaxChunks
    /\ chunk_idx' = chunk_idx + 1
    /\ calls' = calls + 1
    /\ pc' = "attributing"
    /\ UNCHANGED <<lines, all_lines, known_line_assignments, jsonl, answered, folded,
                   attributed, cfgvars, manifest, guivars, genvars, newsents, parsevars>>

\* client.chat returns and call_llm_attribution parses the reply: lines 192-212
ChatReturn ==
    /\ pc = "attributing"
    /\ \E reply \in SeqsUpTo(PipePool, MaxResp) :
          /\ lines' = ParseReply(reply)
          /\ attributed' = ParseReply(reply)
    /\ answered' = answered + 1
    /\ pc' = "reconciling"
    /\ UNCHANGED <<chunk_idx, all_lines, known_line_assignments, jsonl, calls, folded,
                   cfgvars, manifest, guivars, genvars, newsents, parsevars>>

\* client.chat raises: nothing in call_llm_attribution or main catches it
ChatRaise ==
    /\ pc = "attributing"
    /\ answered' = answered + 1
    /\ pc' = "failed"
    /\ UNCHANGED <<chunk_idx, lines, all_lines, known_line_assignments, jsonl, calls,
                   folded, attributed, cfgvars, manifest, guivars, genvars, newsents, parsevars>>

\* Variant of MainMerge: the loop goes on without running the merge loop.
MainMergeSkipped ==
    /\ pc = "reconciling"
    /\ lines' = DropOverlap(lines, yielded.overlap_prefix)
    /\ pc' = "sequencing"
    /\ UNCHANGED <<chunk_idx, all_lines, known_line_assignments, jsonl, calls, answered,
                   folded, attributed, cfgvars, manifest, guivars, genvars, newsents, parsevars>>

\* Variant of MainMerge: a chunk without accepted lines ends the run.
MainMergeFailsOnEmpty ==
    /\ pc = "reconciling"
    /\ LET r == MergeLoop(DropOverlap(lines, yielded.overlap_prefix), 1, <<>>,
                          known_line_assignments)
       IN /\ lines' = r.lines
          /\ known_line_assignments' = r.mem
    /\ folded' = folded + 1
    /\ pc' = IF lines = <<>> THEN "failed" ELSE "sequencing"
    /\ UNCHANGED <<chunk_idx, all_lines, jsonl, calls, answered, attributed, cfgvars, manifest, guivars,
                   genvars, newsents, parsevars>>

\* lines 389-406: the overlap drop, then the merge loop
MainMerge ==
    /\ pc = "reconciling"
    /\ LET r == MergeLoop(DropOverlap(lines, yielded.overlap_prefix), 1, <<>>,
                          known_line_assignments)
       IN /\ lines' = r.lines
          /\ known_line_assignments' = r.mem
    /\ folded' = folded + 1
    /\ pc' = "sequencing"
    /\ UNCHANGED <<chunk_idx, all_lines, jsonl, calls, answered, attributed, cfgvars, manifest, guivars,
                   genvars, newsents, parsevars>>

\* Variant of MainExtend: the chunk's lines take the place of the output.
MainExtendReplace ==
    /\ pc = "sequencing"
    /\ lines' = Annotate(lines, chunk_idx)
    /\ all_lines' = Annotate(lines, chunk_idx)
    /\ attributed' = <<>>
    /\ pc' = "chunking"
    /\ UNCHANGED <<chunk_idx, known_line_assignments, jsonl, calls, answered, folded,
                   cfgvars, manifest, guivars, genvars, newsents, parsevars>>

\* lines 408-412, then the for loop asks the generator for the next chunk
MainExtend ==
    /\ pc = "sequencing"
    /\ lines' = Annotate(lines, chunk_idx)
    /\ all_lines' = all_lines \o Annotate(lines, chunk_idx)
    /\ attributed' = <<>>
    /\ pc' = "chunking"
    /\ UNCHANGED <<chunk_idx, known_line_assignments, jsonl, calls, answered, folded,
                   cfgvars, manifest, guivars, genvars, newsents, parsevars>>

\* lines 414-423: assignments.jsonl is written after the loop
MainSave ==
    /\ pc = "exhausted"
    /\ jsonl' = all_lines
    /\ pc' = "done"
    /\ UNCHANGED <<chunk_idx, lines, all_lines, known_line_assignments, calls, answered,
                   folded, attributed, cfgvars, manifest, guivars, genvars, newsents, parsevars>>

\* The run on the text of the two-sentence scenario, with a budget that holds
\* the whole text or the first sentence only, and a classifier that answers
\* with lines taken from its two records and a malformed line.
TaroSentence ==
    <<"U592A", "U90CE", "U300C", "U304A", "U306F", "U3088", "U3046", Kuten, "U300D">>
SkySentence == <<"U7A7A", "U306F", "U9752", "U3044", Kuten>>
ScenarioText == TaroSentence \o SkySentence
ScenarioApprox == {Len(TaroSentence), 1000}

TaroRecord == Obj(Str("dialogue"), Str("U592AU90CE"), Str(TaroSentence))
SkyRecord == Obj(Str("narration"), Str("U30CAU30ECU30FCU30B7U30E7U30F3"), Str(SkySentence))
ScenarioPool == {TaroRecord, SkyRecord, Other("malformed")}

InitScenario ==
    /\ text = ScenarioText
    /\ approx_chars \in ScenarioApprox
    /\ overlap_sentences = 0
    /\ name_map = PipeNameMap
    /\ InitIdle

\* client.chat returns and call_llm_attribution parses the reply: lines 192-212
ScenarioChatReturn ==
    /\ pc = "attributing"
    /\ \E reply \in SeqsUpTo(ScenarioPool, MaxResp) :
          /\ lines' = ParseReply(reply)
          /\ attributed' = ParseReply(reply)
    /\ answered' = answered + 1
    /\ pc' = "reconciling"
    /\ UNCHANGED <<chunk_idx, all_lines, known_line_assignments, jsonl, calls, folded,
                   cfgvars, manifest, guivars, genvars, newsents, parsevars>>

NextScenario ==
    \/ Generator
    \/ MainCall \/ ScenarioChatReturn \/ ChatRaise \/ MainMerge \/ MainExtend \/ MainSave

SpecScenario == InitScenario /\ [][NextScenario]_vars

Main == MainCall \/ ChatReturn \/ ChatRaise \/ MainMerge \/ MainExtend \/ MainSave

Next == Generator \/ Main

Spec == Init /\ [][Next]_vars

----------------------------------------------------------------------------
(* main() without --dry-run: the engine check of lines 343-344 and the     *)
(* synthesis loop of lines 425-470.  pc is "synthesizing" when             *)
(* assignments.jsonl has been written and "synthesized" when manifest.json *)
(* has been written.                                                       *)

\* The characters of a speaker name.
NameChars(name) ==
    CASE name = "" -> <<>>
      [] name = "X" -> <<"X">>
      [] name = " x_" -> <<" ", "x", "_">>
      [] name = "Y" -> <<"Y">>
      [] name = "Narrator" -> <<"N", "a", "r", "r", "a", "t", "o", "r">>
      [] OTHER -> <<name>>

\* str.casefold on the letters of the names
Casefold(c) ==
    CASE c = "X" -> "x"
      [] c = "Y" -> "y"
      [] c = "N" -> "n"
      [] OTHER -> c

\* the character class of line 62
NamePunctuation ==
    {"-", "_", ",", ".", "(", ")", "[", "]", "{", "}", "'", "\"", "/", "\\"}

\* re.sub(r"\s+", " ", s)
RECURSIVE CollapseWhitespace(_)
CollapseWhitespace(s) ==
    IF s = <<>> THEN <<>>
    ELSE IF Head(s) \in Whitespace
    THEN <<" ">> \o CollapseWhitespace(LStrip(s))
    ELSE <<Head(s)>> \o CollapseWhitespace(Tail(s))

\* lines 55-63, on the characters of the name
normalize_name(name) ==
    LET s1 == Strip(NameChars(name))
        s2 == [i \in 1..Len(s1) |-> IF s1[i] = "U3000" THEN " " ELSE s1[i]]
        s3 == CollapseWhitespace(s2)
        s4 == [i \in 1..Len(s3) |-> Casefold(s3[i])]
    IN SelectSeq(s4, LAMBDA c : c \notin Whitespace \cup NamePunctuation)

\* norm_map (line 327): the configured names that normalise to key
NormMapNames(key) == {n \in DOMAIN name_map : normalize_name(n) = key}

\* Variant of SynthLoop: seq counts every line of all_lines.
RECURSIVE SynthLoopCountsAll(_, _, _, _)
SynthLoopCountsAll(ls, i, seq, man) ==
    IF i > Len(ls) THEN man
    ELSE LET obj == ls[i]
             text_line == Strip(obj.text)
             sp_name == obj.speaker_name
             found == NormMapNames(normalize_name(sp_name))
             key == IF found = {} THEN narration_label ELSE CHOOSE n \in found : TRUE
         IN IF text_line = <<>> THEN SynthLoopCountsAll(ls, i + 1, seq + 1, man)
            ELSE IF key \notin DOMAIN name_map THEN SynthLoopCountsAll(ls, i + 1, seq + 1, man)
            ELSE SynthLoopCountsAll(ls, i + 1, seq + 1,
                     Append(man, [seq |-> seq + 1, speaker_name |-> key,
                                  style_id |-> name_map[key], text |-> text_line]))

\* lines 426-466: the synthesis loop from line i of ls on, with seq and
\* manifest as they are before it
RECURSIVE SynthLoop(_, _, _, _)
SynthLoop(ls, i, seq, man) ==
    IF i > Len(ls) THEN man
    ELSE LET obj == ls[i]
             text_line == Strip(obj.text)
             sp_name == obj.speaker_name
             found == NormMapNames(normalize_name(sp_name))
             key == IF found = {} THEN narration_label ELSE CHOOSE n \in found : TRUE
         IN IF text_line = <<>> THEN SynthLoop(ls, i + 1, seq, man)
            ELSE IF key \notin DOMAIN name_map THEN SynthLoop(ls, i + 1, seq, man)
            ELSE SynthLoop(ls, i + 1, seq + 1,
                     Append(man, [seq |-> seq + 1, speaker_name |-> key,
                                  style_id |-> name_map[key], text |-> text_line]))

SynthText == <<"a", Kuten, "b", Kuten>>
SynthApprox == {2, 4}
SynthConfigs == {PipeNameMap, [n \in {"X"} |-> 1]}

SynthPool ==
    {Obj(Str("dialogue"), Str("X"), Str(A)),
     Obj(Str("dialogue"), Str(" x_"), Str(B)),
     Obj(Str("narration"), Str("Y"), Str(ASpaced)),
     Obj(Str("narration"), Str(""), Str(B)),
     Obj(Str("narration"), Str("Narrator"), Str(Blank))}

InitSynth ==
    /\ text = SynthText
    /\ approx_chars \in SynthApprox
    /\ overlap_sentences = 0
    /\ name_map \in SynthConfigs
    /\ InitIdle

\* lines 343-344: ensure_engine_up ends the run when the engine does not answer
EngineDown ==
    /\ pc = "chunking" /\ gpc = "start"
    /\ pc' = "failed"
    /\ UNCHANGED <<genvars, cfgvars, mainvars, newsents, parsevars, manifest, guivars>>

\* client.chat returns and call_llm_attribution parses the reply: lines 192-212
SynthChatReturn ==
    /\ pc = "attributing"
    /\ \E reply \in SeqsUpTo(SynthPool, MaxResp) :
          /\ lines' = ParseReply(reply)
          /\ attributed' = ParseReply(reply)
    /\ answered' = answered + 1
    /\ pc' = "reconciling"
    /\ UNCHANGED <<chunk_idx, all_lines, known_line_assignments, jsonl, calls, folded,
                   cfgvars, genvars, newsents, parsevars, manifest, guivars>>

\* lines 414-423 without --dry-run: assignments.jsonl is written and main goes on
MainSaveNonDry ==
    /\ pc = "exhausted"
    /\ jsonl' = all_lines
    /\ pc' = "synthesizing"
    /\ UNCHANGED <<chunk_idx, lines, all_lines, known_line_assignments, calls, answered,
                   folded, attributed, cfgvars, genvars, newsents, parsevars, manifest,
                   guivars>>

\* lines 425-470: every line is synthesized and manifest.json is written
Synthesize ==
    /\ pc = "synthesizing"
    /\ manifest' = SynthLoop(all_lines, 1, 0, <<>>)
    /\ pc' = "synthesized"
    /\ UNCHANGED <<genvars, cfgvars, mainvars, newsents, parsevars, guivars>>

\* lines 447-449: a request to the engine raises; manifest.json is not written
SynthRaise ==
    /\ pc = "synthesizing"
    /\ SynthLoop(all_lines, 1, 0, <<>>) # <<>>
    /\ pc' = "failed"
    /\ UNCHANGED <<genvars, cfgvars, mainvars, newsents, parsevars, manifest, guivars>>

NextSynth ==
    \/ EngineDown
    \/ Generator
    \/ MainCall \/ SynthChatReturn \/ ChatRaise \/ MainMerge \/ MainExtend
    \/ MainSaveNonDry \/ Synthesize \/ SynthRaise

SpecSynth == InitSynth /\ [][NextSynth]_vars

----------------------------------------------------------------------------
(* scripts/gui_voicevox_runner.py: VoicevoxGUI.run_pipeline, the command   *)
(* of run_button, and the worker thread _run_pipeline_thread it starts.    *)
(* Tk runs the command of a button only while the button is not disabled.  *)
(* wpc[w] is "idle" when thread w does not run, else the statement of the  *)
(* try block the thread is at, "except_cpe" and "except" in the two        *)
(* handlers, and "finally" when it has left the try block for the finally  *)
(* clause, the last statement of the thread.                               *)

MaxClicks == 3

\* line 216: for _ in range(10)
PollAttempts == 10

pipevars == <<cfgvars, genvars, pc, mainvars, newsents, parsevars, manifest>>

InitGui ==
    /\ text = <<>>
    /\ approx_chars = 4000
    /\ overlap_sentences = 0
    /\ name_map = PipeNameMap
    /\ InitIdle

IdleWorkers == {w \in 1..MaxWorkers : wpc[w] = "idle"}

\* lines 184-187: nothing was pasted, a warning is shown
RunPipelineEmpty ==
    /\ run_button = "normal"
    /\ clicks < MaxClicks
    /\ clicks' = clicks + 1
    /\ UNCHANGED <<run_button, wpc, polls, last_exit, pipevars>>

\* lines 189-196: making the output directory or writing the text raises
RunPipelineRaise ==
    /\ run_button = "normal"
    /\ clicks < MaxClicks
    /\ clicks' = clicks + 1
    /\ UNCHANGED <<run_button, wpc, polls, last_exit, pipevars>>

\* Variant of RunPipeline: the button is left as it is.
RunPipelineNoDisable ==
    /\ run_button = "normal"
    /\ clicks < MaxClicks
    /\ IdleWorkers # {}
    /\ LET w == CHOOSE v \in IdleWorkers : \A u \in IdleWorkers : v <= u
       IN /\ wpc' = [wpc EXCEPT ![w] = "check"]
          /\ polls' = [polls EXCEPT ![w] = 0]
    /\ clicks' = clicks + 1
    /\ UNCHANGED <<run_button, last_exit, pipevars>>

\* lines 184-204: the button is disabled and a worker thread is started
RunPipeline ==
    /\ run_button = "normal"
    /\ clicks < MaxClicks
    /\ IdleWorkers # {}
    /\ run_button' = "disabled"
    /\ LET w == CHOOSE v \in IdleWorkers : \A u \in IdleWorkers : v <= u
       IN /\ wpc' = [wpc EXCEPT ![w] = "check"]
          /\ polls' = [polls EXCEPT ![w] = 0]
    /\ clicks' = clicks + 1
    /\ UNCHANGED <<last_exit, pipevars>>

\* line 209: is_engine_running() answers, or raises something other than
\* URLError
WorkerCheck(w) ==
    /\ wpc[w] = "check"
    /\ \E next \in {"assign", "start", "except"} : wpc' = [wpc EXCEPT ![w] = next]
    /\ UNCHANGED <<run_button, polls, last_exit, clicks, pipevars>>

\* lines 210-215: start_engine() fails and the thread returns, or succeeds
WorkerStart(w) ==
    /\ wpc[w] = "start"
    /\ \/ /\ wpc' = [wpc EXCEPT ![w] = "finally"]
          /\ last_exit' = "engine_start_failed"
          /\ UNCHANGED polls
       \/ /\ wpc' = [wpc EXCEPT ![w] = "poll"]
          /\ polls' = [polls EXCEPT ![w] = 0]
          /\ UNCHANGED last_exit
    /\ UNCHANGED <<run_button, clicks, pipevars>>

\* lines 216-223: one pass of the readiness loop; its else clause returns
WorkerPoll(w) ==
    /\ wpc[w] = "poll"
    /\ \/ /\ polls[w] < PollAttempts
          /\ wpc' = [wpc EXCEPT ![w] = "assign"]
          /\ UNCHANGED <<polls, last_exit>>
       \/ /\ polls[w] < PollAttempts
          /\ polls' = [polls EXCEPT ![w] = polls[w] + 1]
          /\ UNCHANGED <<wpc, last_exit>>
       \/ /\ polls[w] = PollAttempts
          /\ wpc' = [wpc EXCEPT ![w] = "finally"]
          /\ last_exit' = "engine_never_ready"
          /\ UNCHANGED polls
    /\ UNCHANGED <<run_button, clicks, pipevars>>

\* lines 225-247: auto_assign_voicevox.py is run; it leaves a manifest or
\* none, exits with an error, or something else raises
WorkerAssign(w) ==
    /\ wpc[w] = "assign"
    /\ \E next \in {"merge", "finish", "except_cpe", "except"} :
          wpc' = [wpc EXCEPT ![w] = next]
    /\ UNCHANGED <<run_button, polls, last_exit, clicks, pipevars>>

\* lines 249-261: the audio files are merged
WorkerMerge(w) ==
    /\ wpc[w] = "merge"
    /\ \E next \in {"finish", "except_cpe", "except"} : wpc' = [wpc EXCEPT ![w] = next]
    /\ UNCHANGED <<run_button, polls, last_exit, clicks, pipevars>>

\* lines 263-265: the folder is opened and the end of the run is reported
WorkerFinish(w) ==
    /\ wpc[w] = "finish"
    /\ \/ /\ wpc' = [wpc EXCEPT ![w] = "finally"]
          /\ last_exit' = "success"
       \/ /\ wpc' = [wpc EXCEPT ![w] = "except"]
          /\ UNCHANGED last_exit
    /\ UNCHANGED <<run_button, polls, clicks, pipevars>>

\* lines 266-271: the two handlers
WorkerExcept(w) ==
    /\ wpc[w] \in {"except_cpe", "except"}
    /\ wpc' = [wpc EXCEPT ![w] = "finally"]
    /\ last_exit' = IF wpc[w] = "except_cpe" THEN "subprocess_failed" ELSE "exception"
    /\ UNCHANGED <<run_button, polls, clicks, pipevars>>

\* line 272: the finally clause enables the button, and the thread ends
WorkerFinally(w) ==
    /\ wpc[w] = "finally"
    /\ run_button' = "normal"
    /\ wpc' = [wpc EXCEPT ![w] = "idle"]
    /\ UNCHANGED <<polls, last_exit, clicks, pipevars>>

Worker(w) ==
    \/ WorkerCheck(w) \/ WorkerStart(w) \/ WorkerPoll(w) \/ WorkerAssign(w)
    \/ WorkerMerge(w) \/ WorkerFinish(w) \/ WorkerExcept(w) \/ WorkerFinally(w)

NextGui ==
    \/ RunPipelineEmpty \/ RunPipelineRaise \/ RunPipeline
    \/ \E w \in 1..MaxWorkers : Worker(w)

SpecGui == InitGui /\ [][NextGui]_vars

----------------------------------------------------------------------------
(* Properties *)

KeyOf(l) == normalize_text_for_merge(l.text)
SameLabel(a, b) == a.speaker_name = b.speaker_name /\ a.type = b.type

\* C1, as claimed: in the record written at the end of the run, any two lines
\* with the same whitespace-free text carry the same speaker_name and type.
C1_EqualKeyEqualLabel ==
    pc = "done" =>
        \A i, j \in DOMAIN jsonl :
            KeyOf(jsonl[i]) = KeyOf(jsonl[j]) => SameLabel(jsonl[i], jsonl[j])

\* C1, amended: of two emitted lines with the same non-empty whitespace-free
\* text, the later one carries the speaker_name and type of the earlier one
\* whenever the earlier one has a non-empty speaker_name.
C1_LaterFollowsNamedEarlier ==
    \A i, j \in DOMAIN all_lines :
        (/\ i < j
         /\ KeyOf(all_lines[i]) = KeyOf(all_lines[j])
         /\ KeyOf(all_lines[i]) # <<>>
         /\ all_lines[i].speaker_name # "")
        => SameLabel(all_lines[i], all_lines[j])

\* The merge loop has just written an earlier chunk's label over the label the
\* classifier gave a line of this chunk.
C1_Witness ==
    /\ pc = "sequencing"
    /\ chunk_idx > 1
    /\ \E k \in DOMAIN lines :
          /\ ~SameLabel(lines[k], DropOverlap(attributed, yielded.overlap_prefix)[k])
          /\ \E i \in DOMAIN all_lines :
                /\ KeyOf(all_lines[i]) = KeyOf(lines[k])
                /\ SameLabel(all_lines[i], lines[k])

\* C2, as claimed: for overlap_sentences >= 0 the generator is exhausted after
\* finitely many chunks.
C2_Termination == (overlap_sentences >= 0) => <>(gpc = "done")

\* C3, as claimed: when client.chat has raised, the lines of the earlier
\* chunks are in the record the run leaves behind.
C3_PartialSuccess == (pc = "failed" /\ gpc # "raised") => jsonl = all_lines

\* C4: at most one client.chat call is outstanding, and while the call for
\* chunk N+1 is outstanding the merge loops of chunks 1..N have all completed.
C4_Sequential ==
    /\ calls - answered \in {0, 1}
    /\ calls - answered = 1 => (calls = chunk_idx /\ folded = calls - 1)

C4_Witness == calls = 2 /\ answered = 1 /\ folded = 1 /\ pc = "attributing"

\* One record per sentence of the chunk, each with the sentence's text up to
\* whitespace.
Faithful(attr, sents) ==
    /\ Len(attr) = Len(sents)
    /\ \A i \in DOMAIN attr : KeyOf(attr[i]) = normalize_text_for_merge(sents[i])

DistinctKeys(attr) ==
    \A i, j \in DOMAIN attr : KeyOf(attr[i]) = KeyOf(attr[j]) => i = j

\* C5: when the classifier answers a chunk with one record per sentence, the
\* step that appends the chunk's lines leaves every line already in the output
\* as it is (the first occurrence keeps the label it got in its own chunk),
\* appends exactly one line per sentence after the overlap prefix and none for
\* the overlap sentences; in chunk 1 the appended labels are the classifier's.
C5_OverlapRoundTrip ==
    [][(pc = "sequencing" /\ pc' = "chunking" /\ Faithful(attributed, yielded.sents)) =>
          LET p == yielded.overlap_prefix
              new == SubSeq(all_lines', Len(all_lines) + 1, Len(all_lines'))
          IN /\ SubSeq(all_lines', 1, Len(all_lines)) = all_lines
             /\ Len(new) = Len(yielded.sents) - p
             /\ \A k \in DOMAIN new :
                   KeyOf(new[k]) = normalize_text_for_merge(yielded.sents[p + k])
             /\ (chunk_idx = 1 /\ DistinctKeys(attributed)) =>
                   \A k \in DOMAIN new : SameLabel(new[k], attributed[k])]_vars

\* Chunk 2 repeats the last sentence of chunk 1 as its overlap prefix, the
\* classifier labelled that sentence differently in chunk 2, and the lines
\* about to be appended hold no entry for it.
C5_Witness ==
    /\ pc = "sequencing"
    /\ chunk_idx = 2
    /\ yielded.overlap_prefix = 1
    /\ Faithful(attributed, yielded.sents)
    /\ Len(all_lines) = 2
    /\ KeyOf(all_lines[2]) = KeyOf(attributed[1])
    /\ all_lines[2].speaker_name # attributed[1].speaker_name
    /\ Len(lines) = Len(yielded.sents) - 1

IsPrefix(s, t) == Len(s) <= Len(t) /\ SubSeq(t, 1, Len(s)) = s

\* C6, as claimed: the sentences the chunks contribute after their overlap
\* prefixes, concatenated in chunk order, are always a prefix of the
\* splitter's sequence and in the end are the whole sequence.
C6_OrderAndCoverage ==
    (overlap_sentences >= 0) =>
        ([]IsPrefix(newsents, split_sentences(text))
         /\ <>(newsents = split_sentences(text)))

\* C7: the overlap prefix count of an emitted chunk is at most the number of
\* its sentences.
C7_PrefixBounded == yielded.overlap_prefix <= Len(yielded.sents)

\* A chunk was seeded from a closed chunk shorter than overlap_sentences.
C7_Witness ==
    /\ pc = "got"
    /\ yielded.overlap_prefix > 0
    /\ yielded.overlap_prefix < overlap_sentences

LongIdx == {i \in DOMAIN split_sentences(text) : Len(split_sentences(text)[i]) > approx_chars}

\* C8, as claimed: a chunk that contributes a sentence longer than the budget
\* contributes that whole sentence and nothing else, and every such sentence
\* is contributed by some chunk.
C8_LongSentenceOwnChunk ==
    (overlap_sentences >= 0) =>
        (/\ [](pc = "got" =>
                 LET new == SliceFrom(yielded.sents, yielded.overlap_prefix)
                 IN (\E k \in DOMAIN new : Len(new[k]) > approx_chars) =>
                        (Len(new) = 1 /\ new[1] = split_sentences(text)[Len(newsents) + 1]))
         /\ <>(\A i \in LongIdx : i <= Len(newsents)))

\* C9: with overlap_sentences < 0 no chunk is emitted, no chat call is issued
\* and no line is produced; the run can only fail.
C9_ConfigRejected ==
    overlap_sentences < 0 =>
        /\ calls = 0 /\ chunk_idx = 0
        /\ yielded = NoRecord
        /\ lines = <<>> /\ all_lines = <<>> /\ jsonl = <<>>
        /\ pc \in {"chunking", "failed"}
        /\ gpc \in {"start", "raised"}

C9_Witness == overlap_sentences < 0 /\ pc = "failed" /\ gpc = "raised" /\ calls = 0

ValidRecord(ln) ==
    /\ ln.form = "object"
    /\ ln.type = Str("dialogue") \/ ln.type = Str("narration")
    /\ ln.speaker_name.str
    /\ ln.text.str

\* C10: what call_llm_attribution has accepted after reading a part of the
\* reply is that part without the lines that are no valid record, in order;
\* no line makes it raise.
C10_ParsingPolicy ==
    /\ pc \in {"chat", "scan", "returned"}
    /\ pc \in {"scan", "returned"} =>
          LET kept == SelectSeq(SubSeq(raw, 1, rpos), ValidRecord)
          IN accepted = [i \in 1..Len(kept) |-> ObjOf(kept[i])]

\* A malformed line between two valid records: both are accepted.
C10_Witness ==
    /\ pc = "returned"
    /\ Len(raw) = 3
    /\ raw[2] = Other("malformed")
    /\ ValidRecord(raw[1]) /\ ValidRecord(raw[3])
    /\ accepted = <<ObjOf(raw[1]), ObjOf(raw[3])>>

\* C11: every invocation of call_llm_attribution issues exactly one
\* client.chat call, so the number of calls issued is the number of chunks
\* handed to it; once it has returned, every call issued has been answered.
C11_OneCallPerChunk ==
    /\ calls = chunk_idx
    /\ pc = "attributing" => answered = calls - 1
    /\ pc \in {"reconciling", "sequencing"} => (answered = calls /\ calls >= 1)
    /\ folded \in {calls - 1, calls} \/ calls = 0

\* Both chunks have been attributed: two calls, two answers.
C11_Witness == pc = "sequencing" /\ chunk_idx = 2 /\ calls = 2 /\ answered = 2

\* C12: in the output the chunk_index never decreases and grows from one
\* chunk's lines to the next chunk's; line_index_in_chunk starts at 1 with
\* each chunk and grows by one from line to line of the chunk.
C12_ChunkAndLineIndex ==
    \A i \in DOMAIN all_lines :
        IF i = 1 THEN all_lines[i].line_index_in_chunk = 1
        ELSE \/ /\ all_lines[i].chunk_index = all_lines[i - 1].chunk_index
                /\ all_lines[i].line_index_in_chunk = all_lines[i - 1].line_index_in_chunk + 1
             \/ /\ all_lines[i].chunk_index > all_lines[i - 1].chunk_index
                /\ all_lines[i].line_index_in_chunk = 1

\* Two lines of chunk 1 followed by a line of chunk 2.
C12_Witness ==
    /\ Len(all_lines) >= 3
    /\ all_lines[1].chunk_index = 1 /\ all_lines[2].chunk_index = 1
    /\ all_lines[2].line_index_in_chunk = 2
    /\ all_lines[3].chunk_index = 2 /\ all_lines[3].line_index_in_chunk = 1

LexLess(a, b) ==
    \/ a.chunk_index < b.chunk_index
    \/ a.chunk_index = b.chunk_index /\ a.line_index_in_chunk < b.line_index_in_chunk

\* C13, as claimed: the (chunk_index, line_index_in_chunk) pairs of the output
\* skip no position and no chunk index, whatever the classifier answered.
C13_NoIndexSkipped ==
    \A i \in DOMAIN all_lines :
        IF i = 1 THEN all_lines[i].chunk_index = 1 /\ all_lines[i].line_index_in_chunk = 1
        ELSE \/ /\ all_lines[i].chunk_index = all_lines[i - 1].chunk_index
                /\ all_lines[i].line_index_in_chunk = all_lines[i - 1].line_index_in_chunk + 1
             \/ /\ all_lines[i].chunk_index = all_lines[i - 1].chunk_index + 1
                /\ all_lines[i].line_index_in_chunk = 1

\* C13, amended: the pairs of the output are strictly increasing in
\* lexicographic order, and the step that appends chunk N's k lines appends
\* exactly the pairs (N, 1) .. (N, k) after pairs of earlier chunks only: no
\* position is skipped, and chunk index N is missing from the output exactly
\* when chunk N contributed no line.
C13_GapOnlyAtEmptyChunk ==
    /\ [](\A i, j \in DOMAIN all_lines : i < j => LexLess(all_lines[i], all_lines[j]))
    /\ [][(pc = "sequencing" /\ pc' = "chunking") =>
             LET new == SubSeq(all_lines', Len(all_lines) + 1, Len(all_lines'))
             IN /\ Len(new) = Len(lines)
                /\ chunk_idx = folded
                /\ \A k \in DOMAIN new :
                      new[k].chunk_index = chunk_idx /\ new[k].line_index_in_chunk = k
                /\ \A i \in DOMAIN all_lines : all_lines[i].chunk_index < chunk_idx
                /\ (\E i \in DOMAIN all_lines' : all_lines'[i].chunk_index = chunk_idx)
                      <=> lines # <<>>]_vars

\* Chunk 1 contributed no line and chunk 2 did: the output starts at (2, 1).
C13_Witness ==
    /\ all_lines # <<>>
    /\ all_lines[1].chunk_index = 2
    /\ all_lines[1].line_index_in_chunk = 1

\* "".join(sentences)
RECURSIVE Concat(_)
Concat(ss) == IF ss = <<>> THEN <<>> ELSE Head(ss) \o Concat(Tail(ss))

\* C14: the sentences the splitter returns, concatenated and freed of
\* whitespace, are the input text freed of whitespace.
C14_SplitterRoundTrip ==
    gpc = "loop" => RemoveWhitespace(Concat(sentences)) = RemoveWhitespace(text)

\* A text with whitespace inside, split in two sentences, the last one
\* without a terminator.
C14_Witness ==
    /\ gpc = "loop"
    /\ \E i \in DOMAIN text : text[i] \in Whitespace
    /\ Len(sentences) = 2
    /\ sentences[2][Len(sentences[2])] \notin Terminators \cup Closers \cup {Ellipsis}

\* The merge loop run once more over the lines it has just produced, with
\* the memory it has left.
SecondRun == MergeLoop(lines, 1, <<>>, known_line_assignments)

\* C15, as claimed: the merge loop run again over its own result, with the
\* memory the first run left, returns that result unchanged.
C15_Idempotent == pc = "sequencing" => SecondRun.lines = lines

\* C15, amended: the second run leaves the memory as it is and returns every
\* line unchanged that has a non-empty speaker_name or whose key is not in
\* the memory; only a line with an empty speaker_name whose key has been
\* recorded (by a later line or a later chunk) is changed by it.
C15_IdempotentOnNamedLines ==
    pc = "sequencing" =>
        /\ Len(SecondRun.lines) = Len(lines)
        /\ SecondRun.mem = known_line_assignments
        /\ \A k \in DOMAIN lines :
              (lines[k].speaker_name # "" \/ KeyOf(lines[k]) \notin DOMAIN known_line_assignments)
              => SecondRun.lines[k] = lines[k]

\* A line with an empty speaker_name is followed, in the same chunk, by a
\* line with the same key that was recorded: the second run rewrites the
\* first of the two, and leaves the second as it is.
C15_Witness ==
    /\ pc = "sequencing"
    /\ \E k, j \in DOMAIN lines :
          /\ k < j
          /\ lines[k].speaker_name = ""
          /\ lines[j].speaker_name # ""
          /\ KeyOf(lines[k]) = KeyOf(lines[j])
          /\ KeyOf(lines[k]) \in DOMAIN known_line_assignments
          /\ SecondRun.lines[k] # lines[k]
          /\ SecondRun.lines[j] = lines[j]

\* C16: no step changes, reorders or removes a line that is already in the
\* output; the output only grows at its end.
C16_AppendOnly == [][IsPrefix(all_lines, all_lines')]_vars

\* The run has ended with lines of chunk 1 and of chunk 2 in the record.
C16_Witness ==
    /\ pc = "done"
    /\ Len(jsonl) >= 2
    /\ jsonl[1].chunk_index = 1
    /\ jsonl[Len(jsonl)].chunk_index = 2

\* C17: a chunk for which call_llm_attribution accepted no record raises
\* nothing, adds no line to the output, leaves the memory as it is, and the
\* loop goes on to ask for the next chunk.
C17_EmptyResultNoError ==
    [][(attributed = <<>> /\ pc \in {"reconciling", "sequencing"}) =>
          /\ pc' = (IF pc = "reconciling" THEN "sequencing" ELSE "chunking")
          /\ lines' = <<>>
          /\ known_line_assignments' = known_line_assignments
          /\ all_lines' = all_lines]_vars

\* Chunk 1 gave no line and the call for chunk 2 has been issued.
C17_Witness ==
    /\ pc = "attributing"
    /\ chunk_idx = 2
    /\ folded = 1
    /\ all_lines = <<>>
    /\ known_line_assignments = <<>>

\* C18: the merge loop keeps every accepted line and its text, and keeps its
\* speaker_name, be it in allowed_names or not, unless the line's key was in
\* the memory or was recorded by an earlier line of the chunk, in which case
\* the line takes the recorded name; nothing is checked when the record is
\* written.
C18_NamesUnvalidated ==
    /\ [](pc = "done" => jsonl = all_lines)
    /\ [][(pc = "reconciling" /\ pc' = "sequencing") =>
             LET in == DropOverlap(attributed, yielded.overlap_prefix)
             IN /\ Len(lines') = Len(in)
                /\ \A k \in DOMAIN in :
                      /\ lines'[k].text = in[k].text
                      /\ \/ lines'[k].speaker_name = in[k].speaker_name
                         \/ /\ KeyOf(in[k]) \in DOMAIN known_line_assignments'
                            /\ lines'[k].speaker_name =
                                   known_line_assignments'[KeyOf(in[k])][1]
                            /\ \/ KeyOf(in[k]) \in DOMAIN known_line_assignments
                               \/ \E j \in 1..(k - 1) :
                                     /\ KeyOf(in[j]) = KeyOf(in[k])
                                     /\ in[j].speaker_name = lines'[k].speaker_name]_vars

\* The record written at the end holds a line with a non-empty speaker_name
\* outside allowed_names and a line with an empty one.
C18_Witness ==
    /\ pc = "done"
    /\ \E i, j \in DOMAIN jsonl :
          /\ jsonl[i].speaker_name \notin allowed_names \cup {""}
          /\ jsonl[j].speaker_name = ""

StubLines == <<ObjOf(TaroRecord), ObjOf(SkyRecord)>>

\* C19: on the scenario text with a budget of 1000 and no overlap the
\* splitter returns the two sentences, the generator yields one chunk, at its
\* final yield, holding both with overlap prefix 0, one call is made, and when
\* the classifier answers with the dialogue record and the narration record
\* the output is these two, in order, at positions 1 and 2 of chunk 1, and is
\* what the record written at the end holds.
C19_SingleChunkScenario ==
    /\ []((approx_chars = 1000 /\ overlap_sentences = 0) =>
            /\ gpc # "start" => sentences = <<TaroSentence, SkySentence>>
            /\ gpc \notin {"suspended", "raised"}
            /\ yielded \in {NoRecord,
                            [sents |-> <<TaroSentence, SkySentence>>, overlap_prefix |-> 0]}
            /\ chunk_idx <= 1 /\ calls <= 1
            /\ pc = "done" => jsonl = all_lines)
    /\ [][(/\ approx_chars = 1000 /\ overlap_sentences = 0
           /\ pc = "sequencing" /\ pc' = "chunking"
           /\ attributed = StubLines) =>
             all_lines' =
                 <<[type |-> "dialogue", speaker_name |-> "U592AU90CE",
                    text |-> TaroSentence, chunk_index |-> 1, line_index_in_chunk |-> 1],
                   [type |-> "narration", speaker_name |-> "U30CAU30ECU30FCU30B7U30E7U30F3",
                    text |-> SkySentence, chunk_index |-> 1, line_index_in_chunk |-> 2]>>]_vars

\* The scenario has run to its end: one chunk, and the two records written.
C19_Witness ==
    /\ approx_chars = 1000 /\ overlap_sentences = 0
    /\ pc = "done" /\ gpc = "done"
    /\ chunk_idx = 1
    /\ Len(jsonl) = 2
    /\ jsonl[1].type = "dialogue" /\ jsonl[1].line_index_in_chunk = 1
    /\ jsonl[2].type = "narration" /\ jsonl[2].line_index_in_chunk = 2

\* C20, as claimed: the merge loop runs over all the lines of the reply, the
\* overlap lines included, and the overlap lines are dropped from its result:
\* the chunk's lines and the memory are those of this order.
C20_ReconcileThenDrop ==
    [][(pc = "reconciling" /\ pc' = "sequencing") =>
          LET r == MergeLoop(lines, 1, <<>>, known_line_assignments)
          IN /\ lines' = DropOverlap(r.lines, yielded.overlap_prefix)
             /\ known_line_assignments' = r.mem]_vars

LabelOf(l) == <<l.speaker_name, l.type>>

\* C21: no step removes or changes an entry of known_line_assignments, and
\* the merge loop gives the recorded (speaker_name, type) pair to every line
\* whose key was recorded before the chunk, and to every line of the chunk
\* that follows the line that recorded its key.
C21_FirstWriteWins ==
    /\ [][\A k \in DOMAIN known_line_assignments :
             /\ k \in DOMAIN known_line_assignments'
             /\ known_line_assignments'[k] = known_line_assignments[k]]_vars
    /\ [][(pc = "reconciling" /\ pc' = "sequencing") =>
             LET in == DropOverlap(attributed, yielded.overlap_prefix)
             IN \A j \in DOMAIN lines' :
                   LET key == KeyOf(lines'[j])
                   IN (\/ key \in DOMAIN known_line_assignments
                       \/ \E i \in 1..(j - 1) :
                             /\ KeyOf(in[i]) = key
                             /\ key \in DOMAIN known_line_assignments'
                             /\ LabelOf(in[i]) = known_line_assignments'[key])
                      => LabelOf(lines'[j]) = known_line_assignments'[key]]_vars

\* A line of chunk 2 came with a label other than the one chunk 1 recorded
\* for its key, and has taken the recorded one; the memory holds two keys.
C21_Witness ==
    /\ pc = "sequencing"
    /\ chunk_idx = 2
    /\ Cardinality(DOMAIN known_line_assignments) = 2
    /\ \E j \in DOMAIN lines :
          /\ KeyOf(lines[j]) \in DOMAIN known_line_assignments
          /\ LabelOf(lines[j]) = known_line_assignments[KeyOf(lines[j])]
          /\ LabelOf(DropOverlap(attributed, yielded.overlap_prefix)[j]) # LabelOf(lines[j])
          /\ \E i \in DOMAIN all_lines :
                KeyOf(all_lines[i]) = KeyOf(lines[j]) /\ LabelOf(all_lines[i]) = LabelOf(lines[j])

\* C22: a chunk yielded after another one starts with the last
\* min(overlap_sentences, length) sentences of the chunk yielded before it,
\* in their order, and its overlap prefix is that number; with
\* overlap_sentences = 0 every overlap prefix is 0.
C22_OverlapSeeding ==
    /\ []((pc = "got" /\ overlap_sentences = 0) => yielded.overlap_prefix = 0)
    /\ [][(pc' = "got" /\ gpc \in {"loop"} /\ gpc' \in {"suspended", "final"}
           /\ yielded # NoRecord) =>
             LET closed == yielded.sents
                 n == Min(overlap_sentences, Len(closed))
             IN /\ yielded'.overlap_prefix = n
                /\ Len(yielded'.sents) >= n
                /\ SubSeq(yielded'.sents, 1, n) =
                       SubSeq(closed, Len(closed) - n + 1, Len(closed))]_vars

\* A chunk of two sentences was closed, and the chunk after it starts with
\* the second of them and goes on with a new sentence.
C22_Witness ==
    /\ pc = "got"
    /\ overlap_sentences = 1
    /\ yielded.overlap_prefix = 1
    /\ Len(yielded.sents) = 2
    /\ yielded.sents[1] # yielded.sents[2]

\* C23: the merge loop leaves a line whose key is empty as the classifier
\* gave it, the empty key is never an entry of known_line_assignments, and a
\* chunk whose lines all have an empty key leaves known_line_assignments as
\* it is.
C23_EmptyKeyPassThrough ==
    /\ [](<<>> \notin DOMAIN known_line_assignments)
    /\ [][(pc = "reconciling" /\ pc' = "sequencing") =>
             LET in == DropOverlap(attributed, yielded.overlap_prefix)
             IN /\ \A k \in DOMAIN in :
                      KeyOf(in[k]) = <<>> => lines'[k] = in[k]
                /\ (\A k \in DOMAIN in : KeyOf(in[k]) = <<>>) =>
                      known_line_assignments' = known_line_assignments]_vars

\* Two lines with an empty key and different labels have come through the
\* merge loop of one chunk, both as the classifier gave them.
C23_Witness ==
    /\ pc = "sequencing"
    /\ Len(lines) = 2
    /\ KeyOf(lines[1]) = <<>> /\ KeyOf(lines[2]) = <<>>
    /\ LabelOf(lines[1]) # LabelOf(lines[2])
    /\ lines = DropOverlap(attributed, yielded.overlap_prefix)
    /\ known_line_assignments = <<>>

\* Number of characters other than whitespace among the first i of t.
NonWsUpTo(t, i) == Len(RemoveWhitespace(SubSeq(t, 1, i)))

\* The positions, in the text freed of whitespace, at which the sentences of
\* ss begin.
SentenceStarts(ss) ==
    {1 + Len(RemoveWhitespace(Concat(SubSeq(ss, 1, k - 1)))) : k \in 1..Len(ss)}

\* C24, as claimed: a closing bracket that comes right after a terminator or
\* an ellipsis never begins a sentence.
C24_BracketStaysWithSentence ==
    gpc = "loop" =>
        \A i \in 2..Len(text) :
            (text[i] \in Closers /\ text[i - 1] \in Terminators \cup {Ellipsis})
            => NonWsUpTo(text, i) \notin SentenceStarts(sentences)

\* C25: no sentence the splitter returns is empty or made of whitespace only.
C25_NoEmptySentence ==
    gpc = "loop" => \A k \in DOMAIN sentences : Strip(sentences[k]) # <<>>

\* Whitespace stands between two terminators and at the end of the text: the
\* splitter returns two sentences, neither of them empty.
C25_Witness ==
    /\ gpc = "loop"
    /\ Len(text) = 4
    /\ text[1] \in Terminators /\ text[2] \in Whitespace
    /\ text[3] \in Terminators /\ text[4] \in Whitespace
    /\ Len(sentences) = 2

\* C26: a yielded chunk of more than one sentence has a total length, summed
\* over its sentences with the overlap prefix included, of at most
\* approx_chars.
C26_BudgetInvariant ==
    pc = "got" => (Len(yielded.sents) = 1 \/ SumLen(yielded.sents) <= approx_chars)

\* A chunk seeded with an overlap sentence was filled up to the budget, and
\* the sentence that seeded it is not longer than the budget.
C26_Witness ==
    /\ pc = "got"
    /\ yielded.overlap_prefix = 1
    /\ Len(yielded.sents) = 2
    /\ SumLen(yielded.sents) = approx_chars

\* C27, as claimed: every yielded chunk holds at least one sentence after its
\* overlap prefix.
C27_NewTextInEveryChunk ==
    pc = "got" => yielded.overlap_prefix < Len(yielded.sents)

\* C28: for a reply with a accepted records to a chunk with overlap prefix p,
\* the merge loop is left with Max(0, a - p) lines, which have the texts of
\* the accepted records from position p + 1 on, and exactly these are
\* appended to the output; no step of the chunk fails, whatever the texts of
\* the dropped records are and also when a <= p.
C28_DropByCount ==
    /\ [][pc = "reconciling" =>
             LET a == Len(attributed)
                 p == yielded.overlap_prefix
             IN /\ pc' = "sequencing"
                /\ Len(lines') = Max(0, a - p)
                /\ \A k \in DOMAIN lines' : lines'[k].text = attributed[p + k].text]_vars
    /\ [][pc = "sequencing" =>
             LET a == Len(attributed)
                 p == yielded.overlap_prefix
                 new == SubSeq(all_lines', Len(all_lines) + 1, Len(all_lines'))
             IN /\ pc' = "chunking"
                /\ Len(new) = Max(0, a - p)
                /\ \A k \in DOMAIN new : new[k].text = attributed[p + k].text]_vars

\* The first record of the reply has not the text of the overlap sentence:
\* it is dropped all the same, and the second record is the chunk's line.
C28_Witness ==
    /\ pc = "sequencing"
    /\ yielded.overlap_prefix = 1
    /\ Len(attributed) = 2
    /\ KeyOf(attributed[1]) # normalize_text_for_merge(yielded.sents[1])
    /\ Len(lines) = 1
    /\ lines[1].text = attributed[2].text

\* The configured name a line is spoken with: the configured name its
\* speaker_name normalises to, or else the narration label.
VoiceOf(l) ==
    LET same == {n \in DOMAIN name_map : normalize_name(n) = normalize_name(l.speaker_name)}
    IN IF same # {} THEN CHOOSE n \in same : TRUE ELSE narration_label

HasVoice(l) == Strip(l.text) # <<>> /\ VoiceOf(l) \in DOMAIN name_map

\* C29: the entries of the manifest written by a run without --dry-run are,
\* in order, the lines of the output that have a text and a voice (the
\* configured character of their speaker_name, or else the narration label
\* when it is configured); their seq values are 1, 2, .. n, so a line without
\* text or voice takes no seq.
C29_ManifestSequencing ==
    pc = "synthesized" =>
        LET kept == SelectSeq(all_lines, HasVoice)
        IN /\ Len(manifest) = Len(kept)
           /\ \A k \in DOMAIN manifest :
                 /\ manifest[k].seq = k
                 /\ manifest[k].text = Strip(kept[k].text)
                 /\ manifest[k].speaker_name = VoiceOf(kept[k])
                 /\ manifest[k].style_id = name_map[VoiceOf(kept[k])]

\* The narration label is configured.  The first line of the output has no
\* text and the second is spoken by a name that is not configured: the
\* manifest starts with the second line, as seq 1, under the narration label.
C29_Witness ==
    /\ pc = "synthesized"
    /\ Len(all_lines) >= 3
    /\ Strip(all_lines[1].text) = <<>>
    /\ all_lines[2].speaker_name = "Y"
    /\ narration_label \in DOMAIN name_map
    /\ Len(manifest) = Len(all_lines) - 1
    /\ manifest[1].seq = 1
    /\ manifest[1].speaker_name = narration_label

ActiveWorkers == {w \in 1..MaxWorkers : wpc[w] # "idle"}

\* C30: at most one worker thread is active, the run button is disabled
\* exactly while one is, and so it is enabled again whichever way the worker
\* has left its try block.
C30_SingleRunGuard ==
    /\ Cardinality(ActiveWorkers) <= 1
    /\ ActiveWorkers # {} <=> run_button = "disabled"
    /\ last_exit \in {"none", "success", "engine_start_failed", "engine_never_ready",
                      "subprocess_failed", "exception"}

\* A second run has ended, the engine never having become ready, and the
\* button is enabled again.
C30_Witness ==
    /\ clicks >= 2
    /\ last_exit = "engine_never_ready"
    /\ ActiveWorkers = {}
    /\ run_button = "normal"
    /\ \E w \in 1..MaxWorkers : polls[w] = PollAttempts

====
